---- MODULE Spec2Model ----
(***************************************************************************)
(* Model of src/Veo_3.py: the Streamlit form of main(), and the job driver *)
(* generate_video_with_veo3 (submit, poll until done or timeout, download, *)
(* save, read back), with the except-handler's keyword guidance.           *)
(*                                                                         *)
(* Text (prompts, exception messages) is a sequence of one-character       *)
(* strings, so that str.strip(), str.lower() and the `in` substring test   *)
(* are computed the way Python computes them.  Python's None is the record *)
(* None; bytes and lists are wrapped so that they never compare to None.   *)
(* Characters are those below U+0100.  Time is in whole seconds measured   *)
(* from start_time.  The working directory and its three fixed file names  *)
(* are shared with the other calls of the function (earlier ones, and the  *)
(* ones the server runs for other sessions); one such call is followed.    *)
(***************************************************************************)
EXTENDS Integers, Sequences, FiniteSets, TLC

VARIABLES
    pc,               \* position of the script / of the job driver
    entry,            \* "main": reached through the form; "direct": the function called directly
    mode,             \* st.radio value (line 25)
    uploaded_file,    \* bytes of the st.file_uploader value, None when there is none (33-41)
    prompt,           \* st.text_area value / the prompt argument
    duration,         \* selectbox (62) / argument
    aspect_ratio,     \* selectbox (68) / argument
    quality,          \* selectbox (74) / argument
    button_disabled,  \* the disabled= flag of the generate button (98, 104)
    text_only,        \* argument text_only
    image_data,       \* argument image_data
    config,           \* the local GenerateVideosConfig (163)
    image_obj,        \* content of the local `image` (203), None before it is made
    payload,          \* keyword arguments of the last client.models.generate_videos call
    operation,        \* the local `operation`
    elapsed_clock,    \* time.time() - start_time, in seconds
    submits,          \* client.models.generate_videos calls made
    polls,            \* client.operations.get calls made
    not_done_polls,   \* client.operations.get calls that answered done = False
    downloads,        \* client.files.download calls made
    image_writes,     \* times this call opened the staged image file for writing (201)
    files,            \* the working directory: file name -> content, None when absent
    other_pc,         \* position of another call of the function in the same directory
    generated_video,  \* the local `generated_video` / `video`
    result,           \* the value generate_video_with_veo3 returned
    error_shown,      \* which st.error the driver displayed
    guidance_chosen,  \* which guidance st.info the except-handler called (235-247)
    error_message,    \* str(e) in the except-handler
    failed_step,      \* the step whose call raised
    raised_kind,      \* class of what was raised: "Exception" or "BaseException"
    handler_failed,   \* the call of the except-handler that raised, "none" when none did
    left_kind,        \* class of the exception that left generate_video_with_veo3, or "none"
    main_status       \* what main displayed after the call (124-136)

vars == <<pc, entry, mode, uploaded_file, prompt, duration, aspect_ratio, quality,
          button_disabled, text_only, image_data, config, image_obj, payload,
          operation, elapsed_clock, submits, polls, not_done_polls, downloads,
          image_writes, files, other_pc, generated_video, result, error_shown,
          guidance_chosen, error_message, failed_step, raised_kind,
          handler_failed, left_kind,
          main_status>>

-----------------------------------------------------------------------------
(* Bounds of the model *)

MaxPromptLen == 2      \* whitespace-only prompts have at most this many characters
MaxLatency == 1        \* seconds a round may take beyond the sleep, in Spec and SpecCall
MaxFrags == 3          \* exception messages of SpecClassify join at most this many fragments

-----------------------------------------------------------------------------
(* Python values *)

None == [none |-> TRUE]
Bytes(b) == [bytes |-> b]
List(l) == [list |-> l]

\* bool(x) of bytes-or-None: None and b"" are falsy (line 124)
truthy(x) == x # None /\ x # Bytes(<<>>)

-----------------------------------------------------------------------------
(* Text *)

\* the characters below U+0100 that str.strip() removes (str.isspace): U+0009
\* to U+000D, U+001C to U+001F, the space, U+0085 and U+00A0
VT == ""
FS == ""
GS == ""
RS == ""
US == ""
NEL == ""
NBSP == " "
Whitespace == {"\t", "\n", VT, "\f", "\r", FS, GS, RS, US, " ", NEL, NBSP}

RECURSIVE lstrip(_)
lstrip(s) == IF s # <<>> /\ Head(s) \in Whitespace THEN lstrip(Tail(s)) ELSE s

RECURSIVE rstrip(_)
rstrip(s) == IF s # <<>> /\ s[Len(s)] \in Whitespace
             THEN rstrip(SubSeq(s, 1, Len(s) - 1)) ELSE s

strip_noop(s) == s

\* str.strip()
strip(s) == rstrip(lstrip(s))

\* the characters below U+0100 that str.lower() changes, and what it makes of them
UpperChars == <<"A", "B", "C", "D", "E", "F", "G", "H", "I", "J", "K", "L", "M", "N", "O", "P", "Q", "R", "S", "T", "U", "V", "W", "X", "Y", "Z", "À", "Á", "Â", "Ã", "Ä", "Å", "Æ", "Ç", "È", "É", "Ê", "Ë", "Ì", "Í", "Î", "Ï", "Ð", "Ñ", "Ò", "Ó", "Ô", "Õ", "Ö", "Ø", "Ù", "Ú", "Û", "Ü", "Ý", "Þ">>
LowerChars == <<"a", "b", "c", "d", "e", "f", "g", "h", "i", "j", "k", "l", "m", "n", "o", "p", "q", "r", "s", "t", "u", "v", "w", "x", "y", "z", "à", "á", "â", "ã", "ä", "å", "æ", "ç", "è", "é", "ê", "ë", "ì", "í", "î", "ï", "ð", "ñ", "ò", "ó", "ô", "õ", "ö", "ø", "ù", "ú", "û", "ü", "ý", "þ">>

lower_char(c) == IF \E i \in DOMAIN UpperChars : UpperChars[i] = c
                 THEN LowerChars[CHOOSE i \in DOMAIN UpperChars : UpperChars[i] = c]
                 ELSE c

\* str.lower()
lower(s) == [i \in 1..Len(s) |-> lower_char(s[i])]

\* needle in hay
contains(needle, hay) ==
    \E i \in 0..(Len(hay) - Len(needle)) : SubSeq(hay, i + 1, i + Len(needle)) = needle

RECURSIVE concat(_)
concat(ss) == IF ss = <<>> THEN <<>> ELSE Head(ss) \o concat(Tail(ss))

-----------------------------------------------------------------------------
(* Program constants *)

timeout == 300            \* lines 179, 210
sleep_seconds == 10       \* lines 187, 218
MODEL == "veo-3.0-generate-001"
TEMP_IMAGE == "veo3_temp_image_input.jpg"
TEXT_VIDEO == "veo3_generated_video.mp4"
IMAGE_VIDEO == "veo3_with_image_input.mp4"
api_key_set == TRUE       \* line 85: api_key is a non-empty literal

Modes == {"Text Prompt Only", "Text + Image"}   \* line 27
Durations == {4, 8}                             \* line 64
AspectRatios == {"16:9", "9:16"}                \* line 70
Qualities == {"Standard", "High"}               \* line 76

-----------------------------------------------------------------------------
(* Inputs *)

\* the prompts typed: every text of whitespace alone, and one with a word in it
\* and whitespace around the word
BlankPrompts == UNION {[1..n -> Whitespace] : n \in 0..MaxPromptLen}
WordPrompts == {<<NBSP, "a", " ">>}
Prompts == BlankPrompts \cup WordPrompts
DirectPrompts == {<<"a">>}

\* the selections of the three selectboxes (62-79)
Settings == [duration : Durations, aspect_ratio : AspectRatios, quality : Qualities]
\* the settings a caller of the function by itself passes: the first selection
\* of every selectbox, or the last of every one
DirectSettings ==
    {[duration |-> 4, aspect_ratio |-> "16:9", quality |-> "Standard"],
     [duration |-> 8, aspect_ratio |-> "9:16", quality |-> "High"]}

ImageBlob == Bytes(<<255, 216, 255>>)
Images == {None, ImageBlob}
\* the image and the video of another call of the function (an earlier press of
\* the button, or another session of the server) in the same directory
OtherImage == Bytes(<<137, 80>>)
OtherVideo == Bytes(<<9, 9, 9>>)

VideoA == Bytes(<<1, 2>>)
VideoB == Bytes(<<3>>)
VideoLists == {<<>>, <<VideoB, VideoA>>}
Responses == {None, [generated_videos |-> None]}
             \cup {[generated_videos |-> List(l)] : l \in VideoLists}
NotDoneOperation == [done |-> FALSE, response |-> None]
DoneOperations == {[done |-> TRUE, response |-> r] : r \in Responses}
Operations == {NotDoneOperation} \cup DoneOperations

NoPayload == [none |-> TRUE]
NoFiles == [f \in {TEMP_IMAGE, TEXT_VIDEO, IMAGE_VIDEO} |-> None]

\* open(name, "wb"): the file is made, or emptied
opened(files_, name) == [files_ EXCEPT ![name] = Bytes(<<>>)]

\* write(data) through a handle at offset 0: data replaces the first bytes of
\* what the file holds by then
written(files_, name, data) ==
    LET cur == IF files_[name] = None THEN <<>> ELSE files_[name].bytes IN
    [files_ EXCEPT ![name] = Bytes(data.bytes \o SubSeq(cur, Len(data.bytes) + 1, Len(cur)))]

\* messages of the exceptions the remote calls and the file calls raise
BillingMessage == <<"4", "0", "0", " ", "F", "A", "I", "L", "E", "D", "_", "P", "R", "E", "C", "O", "N", "D", "I", "T", "I", "O", "N", ",", " ", "b", "i", "l", "l", "i", "n", "g">>
ErrMessages == {BillingMessage}
\* message of the OSError a file call or a display call raises
OSErrorMessage == <<"[", "E", "r", "r", "n", "o", " ", "2", "8", "]", " ", "N", "o", " ", "s", "p", "a", "c", "e", " ", "l", "e", "f", "t", " ", "o", "n", " ", "d", "e", "v", "i", "c", "e">>
\* str(KeyboardInterrupt())
KeyboardInterruptMessage == <<>>

\* messages of the exceptions Python raises at operation.response.generated_videos[0]
AttributeErrorMessage == <<"'", "N", "o", "n", "e", "T", "y", "p", "e", "'", " ", "o", "b", "j", "e", "c", "t", " ", "h", "a", "s", " ", "n", "o", " ", "a", "t", "t", "r", "i", "b", "u", "t", "e", " ", "'", "g", "e", "n", "e", "r", "a", "t", "e", "d", "_", "v", "i", "d", "e", "o", "s", "'">>
TypeErrorMessage == <<"'", "N", "o", "n", "e", "T", "y", "p", "e", "'", " ", "o", "b", "j", "e", "c", "t", " ", "i", "s", " ", "n", "o", "t", " ", "s", "u", "b", "s", "c", "r", "i", "p", "t", "a", "b", "l", "e">>
IndexErrorMessage == <<"l", "i", "s", "t", " ", "i", "n", "d", "e", "x", " ", "o", "u", "t", " ", "o", "f", " ", "r", "a", "n", "g", "e">>

\* pieces of exception text; the messages of SpecClassify are their concatenations
Fragments ==
    { <<"Q", "u", "o", "t", "a">>, <<"E", "X", "C", "E", "E", "D", "E", "D", " ">>, <<"a", "u", "t", "h", "e", "n", "t", "i", "c", "a", "t", "i", "o", "n">>, <<"U", "n", "a", "u", "t", "h", "o", "r", "i", "z", "e", "d">>,
      <<"I", "N", "V", "A", "L", "I", "D", "_", "A", "R", "G", "U", "M", "E", "N", "T">>, <<"m", "o", "d", "e", "l", " ">>, <<"N", "o", "t", " ", "F", "o", "u", "n", "d">>, <<"T", "i", "m", "e", "O", "u", "t">>,
      <<" ", "U", "N", "A", "V", "A", "I", "L", "A", "B", "L", "E">>, <<"5", "0", "3">>, <<"Q", "U", "O", "T", "É">> }
Messages == {concat(fs) : fs \in UNION {[1..n -> Fragments] : n \in 0..MaxFrags}}

-----------------------------------------------------------------------------
(* The except-handler's guidance, lines 234-247 *)

guidance_timeout_first(error_message_) ==
    LET m == lower(error_message_) IN
    IF contains(<<"t", "i", "m", "e", "o", "u", "t">>, m)
        THEN "Timeout"
    ELSE IF contains(<<"q", "u", "o", "t", "a">>, m) \/ contains(<<"e", "x", "c", "e", "e", "d", "e", "d">>, m)
        THEN "Quota Issue"
    ELSE IF contains(<<"a", "u", "t", "h", "e", "n", "t", "i", "c", "a", "t", "i", "o", "n">>, m) \/ contains(<<"u", "n", "a", "u", "t", "h", "o", "r", "i", "z", "e", "d">>, m)
        THEN "Authentication Issue"
    ELSE IF contains(<<"i", "n", "v", "a", "l", "i", "d", "_", "a", "r", "g", "u", "m", "e", "n", "t">>, m)
        THEN "Invalid Input"
    ELSE IF contains(<<"m", "o", "d", "e", "l">>, m) /\ contains(<<"n", "o", "t", " ", "f", "o", "u", "n", "d">>, m)
        THEN "Model Access"
    ELSE IF contains(<<"u", "n", "a", "v", "a", "i", "l", "a", "b", "l", "e">>, m) \/ contains(<<"5", "0", "3">>, error_message_)
        THEN "Service Unavailable"
    ELSE "General Error"

guidance(error_message_) ==
    LET m == lower(error_message_) IN
    IF contains(<<"q", "u", "o", "t", "a">>, m) \/ contains(<<"e", "x", "c", "e", "e", "d", "e", "d">>, m)
        THEN "Quota Issue"
    ELSE IF contains(<<"a", "u", "t", "h", "e", "n", "t", "i", "c", "a", "t", "i", "o", "n">>, m) \/ contains(<<"u", "n", "a", "u", "t", "h", "o", "r", "i", "z", "e", "d">>, m)
        THEN "Authentication Issue"
    ELSE IF contains(<<"i", "n", "v", "a", "l", "i", "d", "_", "a", "r", "g", "u", "m", "e", "n", "t">>, m)
        THEN "Invalid Input"
    ELSE IF contains(<<"m", "o", "d", "e", "l">>, m) /\ contains(<<"n", "o", "t", " ", "f", "o", "u", "n", "d">>, m)
        THEN "Model Access"
    ELSE IF contains(<<"t", "i", "m", "e", "o", "u", "t">>, m)
        THEN "Timeout"
    ELSE IF contains(<<"u", "n", "a", "v", "a", "i", "l", "a", "b", "l", "e">>, m) \/ contains(<<"5", "0", "3">>, error_message_)
        THEN "Service Unavailable"
    ELSE "General Error"

-----------------------------------------------------------------------------
(* Conditions of the code *)

\* line 98 / line 104
disabled(mode_, uploaded_file_, prompt_) ==
    IF mode_ = "Text Prompt Only"
    THEN strip(prompt_) = <<>> \/ ~api_key_set
    ELSE uploaded_file_ = None \/ strip(prompt_) = <<>> \/ ~api_key_set

\* line 109
may_generate(mode_, uploaded_file_, prompt_) ==
    \/ mode_ = "Text Prompt Only" /\ strip(prompt_) # <<>> /\ api_key_set
    \/ mode_ = "Text + Image" /\ uploaded_file_ # None /\ strip(prompt_) # <<>> /\ api_key_set

\* what main has displayed last and whether an exception left main, after the
\* call returned res: lines 124-128 display the outcome; an Exception of
\* st.success, display_generated_video or st.error goes to main's except
\* (129-131), whose own st.error and st.info can raise; anything else leaves
AfterReturn(res) ==
    IF truthy(res)
    THEN {<<"done", "success">>, <<"done", "error">>, <<"aborted", "none">>,
          <<"aborted", "success">>, <<"aborted", "error">>}
    ELSE {<<"done", "failed">>, <<"done", "error">>, <<"aborted", "none">>,
          <<"aborted", "error">>}

\* the same after an Exception reached main's except (129-131)
AfterException == {<<"done", "error">>, <<"aborted", "none">>, <<"aborted", "error">>}

text_branch_ignores_flag(text_only_, image_data_) == image_data_ = None

\* line 171
text_branch(text_only_, image_data_) == text_only_ \/ image_data_ = None

timed_out_at_limit(elapsed) == elapsed >= timeout

\* lines 183, 214
timed_out(elapsed) == elapsed > timeout

\* lines 190, 221: generated_videos[0]
first_generated(generated_videos) == generated_videos[1]

\* the calls of the driver that can raise: the displays and the constructor
\* before the submit call (160-172, 197), the three file calls of staging (201-203), the submit call,
\* the display of the timeout (184, 215), the display and the sleep of a round
\* (186-187), the poll, the subscripting of the result, the download, the save,
\* the reading back
Steps == {"display", "stage", "submit", "expire", "wait", "poll", "extract",
          "download", "save", "read"}

\* the calls that reach the remote service, which the counters count
Remote == {"submit", "poll", "download"}

\* lines 159-228: the statements the try block covers
in_try(step) == step \in Steps

\* line 228: except Exception catches Exception and its subclasses only
ExceptionKinds == {"Exception", "BaseException"}
caught(step, kind) == in_try(step) /\ kind = "Exception"

\* the keyword arguments of generate_videos, lines 174-177 and 204-208
submit_kwargs(prompt_, image_) ==
    [model |-> MODEL, prompt |-> prompt_, image |-> image_, config |-> None]

\* lines 192, 223: the file the video is saved to
video_path == IF text_branch(text_only, image_data) THEN TEXT_VIDEO ELSE IMAGE_VIDEO

-----------------------------------------------------------------------------
(* Initial state: before the script runs *)

Init ==
    /\ pc = "start"
    /\ entry = "main"
    /\ mode = "Text Prompt Only"
    /\ uploaded_file = None
    /\ prompt = <<>>
    /\ duration = 4
    /\ aspect_ratio = "16:9"
    /\ quality = "Standard"
    /\ button_disabled = TRUE
    /\ text_only = FALSE
    /\ image_data = None
    /\ config = None
    /\ image_obj = None
    /\ payload = NoPayload
    /\ operation = None
    /\ elapsed_clock = 0
    /\ submits = 0
    /\ polls = 0
    /\ not_done_polls = 0
    /\ downloads = 0
    /\ image_writes = 0
    /\ files = NoFiles
    /\ other_pc = "idle"
    /\ generated_video = None
    /\ result = None
    /\ error_shown = "none"
    /\ guidance_chosen = "none"
    /\ error_message = <<>>
    /\ failed_step = "none"
    /\ raised_kind = "none"
    /\ handler_failed = "none"
    /\ left_kind = "none"
    /\ main_status = "none"

-----------------------------------------------------------------------------
(* main(), lines 19-106: the form is rendered from the widget values.  The *)
(* lines stand in no try block: when one of their calls raises (Image.open *)
(* of line 44 on an upload that is no image, or any st call), main ends    *)
(* before the button is made.                                              *)

Render ==
    /\ pc = "start"
    /\ \E m \in Modes, picked \in Images, p \in Prompts, s \in Settings,
          rendered \in BOOLEAN :
          LET f == IF m = "Text + Image" THEN picked ELSE None IN
          /\ mode' = m
          /\ uploaded_file' = f
          /\ prompt' = p
          /\ duration' = s.duration
          /\ aspect_ratio' = s.aspect_ratio
          /\ quality' = s.quality
          /\ button_disabled' = IF rendered THEN disabled(m, f, p) ELSE TRUE
          /\ pc' = IF rendered THEN "form" ELSE "aborted"
    /\ UNCHANGED <<entry, text_only, image_data, config, image_obj, payload, operation,
                   elapsed_clock, submits, polls, not_done_polls, downloads, image_writes,
                   files, other_pc, generated_video, result, error_shown, guidance_chosen,
                   error_message, failed_step, raised_kind, handler_failed, left_kind,
                   main_status>>

\* lines 157-159: the function is entered with the given arguments
Enter(text_only_, image_data_) ==
    /\ text_only' = text_only_
    /\ image_data' = image_data_
    /\ pc' = "entered"

\* lines 108-123 and 132-136: the button is pressed
Click ==
    /\ pc = "form"
    /\ ~button_disabled
    /\ IF may_generate(mode, uploaded_file, prompt)
       THEN \/ /\ Enter(mode = "Text Prompt Only",
                        IF mode = "Text + Image" /\ uploaded_file # None
                        THEN uploaded_file ELSE None)
               /\ UNCHANGED main_status
            \* the run of main that the press starts raises in lines 21-106
            \/ /\ pc' = "aborted"
               /\ UNCHANGED <<text_only, image_data, main_status>>
            \* genai.Client or getvalue (113-114) raises before the call
            \/ /\ \E o \in AfterException : pc' = o[1] /\ main_status' = o[2]
               /\ UNCHANGED <<text_only, image_data>>
       ELSE /\ main_status' = "precondition_error"
            /\ pc' = "done"
            /\ UNCHANGED <<text_only, image_data>>
    /\ UNCHANGED <<entry, mode, uploaded_file, prompt, duration, aspect_ratio, quality,
                   button_disabled, config, image_obj, payload, operation, elapsed_clock,
                   submits, polls, not_done_polls, downloads, image_writes, files,
                   other_pc, generated_video, result, error_shown, guidance_chosen,
                   error_message, failed_step, raised_kind, handler_failed, left_kind>>

\* generate_video_with_veo3 called with arguments of the caller's choice
DirectCall ==
    /\ pc = "start"
    /\ entry' = "direct"
    /\ \E t \in BOOLEAN, i \in Images, p \in DirectPrompts, s \in DirectSettings :
          /\ prompt' = p
          /\ duration' = s.duration
          /\ aspect_ratio' = s.aspect_ratio
          /\ quality' = s.quality
          /\ Enter(t, i)
    /\ UNCHANGED <<mode, uploaded_file, button_disabled, config, image_obj, payload,
                   operation, elapsed_clock, submits, polls, not_done_polls, downloads,
                   image_writes, files, other_pc, generated_video, result, error_shown,
                   guidance_chosen, error_message, failed_step, raised_kind,
                   handler_failed, left_kind, main_status>>

-----------------------------------------------------------------------------
(* generate_video_with_veo3, lines 157-248 *)

\* the call returns res (185, 195, 216, 226, 248); through main, lines 124-131
\* follow at once
Return(res) ==
    /\ result' = res
    /\ elapsed_clock' = 0
    /\ IF entry = "main"
       THEN \E o \in AfterReturn(res) : pc' = o[1] /\ main_status' = o[2]
       ELSE pc' = "returned" /\ UNCHANGED main_status

\* an exception of class `kind` leaves the function; through main, an Exception
\* is caught at 129
Leave(kind) ==
    /\ left_kind' = kind
    /\ elapsed_clock' = 0
    /\ UNCHANGED result
    /\ IF entry = "main" /\ kind = "Exception"
       THEN \E o \in AfterException : pc' = o[1] /\ main_status' = o[2]
       ELSE pc' = "aborted" /\ UNCHANGED main_status

\* the calls of the except-handler: str and print (229-231), st.error (232),
\* the st.info of the guidance (235-247)
HandlerCalls == {"print", "error", "guidance"}

\* an exception of class `kind` with text `msg` raised by `step`.  When it is
\* caught, lines 228-248 run: they end with return None, or one of their own
\* calls raises and that exception leaves the function.  When it is not caught
\* it leaves the function.
Handle(step, kind, msg) ==
    /\ failed_step' = step
    /\ raised_kind' = kind
    /\ error_message' = msg
    /\ IF caught(step, kind)
       THEN \/ /\ error_shown' = "generation_error"
               /\ guidance_chosen' = guidance(msg)
               /\ Return(None)
               /\ UNCHANGED <<handler_failed, left_kind>>
            \/ \E h \in HandlerCalls, k \in ExceptionKinds :
                  /\ handler_failed' = h
                  /\ error_shown' = IF h = "guidance" THEN "generation_error"
                                    ELSE error_shown
                  /\ guidance_chosen' = IF h = "guidance" THEN guidance(msg)
                                        ELSE guidance_chosen
                  /\ Leave(k)
       ELSE /\ Leave(kind)
            /\ UNCHANGED <<error_shown, guidance_chosen, handler_failed>>

\* lines 160-171: the first display, the configuration is built, the branch
\* is chosen
Begin ==
    /\ pc = "entered"
    /\ config' = [aspect_ratio |-> aspect_ratio, number_of_videos |-> 1,
                  duration_seconds |-> duration, person_generation |-> "ALLOW_ALL"]
    /\ pc' = IF text_branch(text_only, image_data) THEN "submit" ELSE "stage"
    /\ UNCHANGED <<entry, mode, uploaded_file, prompt, duration, aspect_ratio, quality,
                   button_disabled, text_only, image_data, image_obj, payload, operation,
                   elapsed_clock, submits, polls, not_done_polls, downloads, image_writes,
                   files, other_pc, generated_video, result, error_shown, guidance_chosen,
                   error_message, failed_step, raised_kind, handler_failed, left_kind,
                   main_status>>

\* line 201: open(temp_image_path, "wb")
StageOpen ==
    /\ pc = "stage"
    /\ files' = opened(files, TEMP_IMAGE)
    /\ image_writes' = image_writes + 1
    /\ pc' = "stage_write"
    /\ UNCHANGED <<entry, mode, uploaded_file, prompt, duration, aspect_ratio, quality,
                   button_disabled, text_only, image_data, config, image_obj, payload,
                   operation, elapsed_clock, submits, polls, not_done_polls, downloads,
                   other_pc, generated_video, result, error_shown, guidance_chosen,
                   error_message, failed_step, raised_kind, handler_failed, left_kind,
                   main_status>>

\* line 202: img_file.write(image_data), and the file is closed
StageWrite ==
    /\ pc = "stage_write"
    /\ files' = written(files, TEMP_IMAGE, image_data)
    /\ pc' = "staged"
    /\ UNCHANGED <<entry, mode, uploaded_file, prompt, duration, aspect_ratio, quality,
                   button_disabled, text_only, image_data, config, image_obj, payload,
                   operation, elapsed_clock, submits, polls, not_done_polls, downloads,
                   image_writes, other_pc, generated_video, result, error_shown,
                   guidance_chosen, error_message, failed_step, raised_kind,
                   handler_failed, left_kind, main_status>>

\* line 203: Image.from_file reads the file of that name
StageRead ==
    /\ pc = "staged"
    /\ image_obj' = files[TEMP_IMAGE]
    /\ pc' = "submit"
    /\ UNCHANGED <<entry, mode, uploaded_file, prompt, duration, aspect_ratio, quality,
                   button_disabled, text_only, image_data, config, payload, operation,
                   elapsed_clock, submits, polls, not_done_polls, downloads, image_writes,
                   files, other_pc, generated_video, result, error_shown, guidance_chosen,
                   error_message, failed_step, raised_kind, handler_failed, left_kind,
                   main_status>>

\* lines 174-180 and 204-211: the submit call answers with an operation
Submit ==
    /\ pc = "submit"
    /\ submits' = submits + 1
    /\ payload' = submit_kwargs(prompt, IF text_branch(text_only, image_data)
                                        THEN None ELSE image_obj)
    /\ \E op \in Operations : operation' = op
    /\ elapsed_clock' = 0
    /\ pc' = "loop"
    /\ UNCHANGED <<entry, mode, uploaded_file, prompt, duration, aspect_ratio, quality,
                   button_disabled, text_only, image_data, config, image_obj, polls,
                   not_done_polls, downloads, image_writes, files, other_pc,
                   generated_video, result, error_shown, guidance_chosen, error_message,
                   failed_step, raised_kind, handler_failed, left_kind, main_status>>

\* lines 181-185 and 212-216: not done and the time is up
LoopTimeout ==
    /\ pc = "loop"
    /\ ~operation.done
    /\ timed_out(elapsed_clock)
    /\ error_shown' = "timed_out"
    /\ Return(None)
    /\ UNCHANGED <<entry, mode, uploaded_file, prompt, duration, aspect_ratio, quality,
                   button_disabled, text_only, image_data, config, image_obj, payload,
                   operation, submits, polls, not_done_polls, downloads, image_writes,
                   files, other_pc, generated_video, guidance_chosen, error_message,
                   failed_step, raised_kind, handler_failed, left_kind>>

\* lines 186-187 and 217-218: st.info, then time.sleep(10)
LoopWait ==
    /\ pc = "loop"
    /\ ~operation.done
    /\ ~timed_out(elapsed_clock)
    /\ elapsed_clock' = elapsed_clock + sleep_seconds
    /\ pc' = "poll"
    /\ UNCHANGED <<entry, mode, uploaded_file, prompt, duration, aspect_ratio, quality,
                   button_disabled, text_only, image_data, config, image_obj, payload,
                   operation, submits, polls, not_done_polls, downloads, image_writes,
                   files, other_pc, generated_video, result, error_shown, guidance_chosen,
                   error_message, failed_step, raised_kind, handler_failed, left_kind,
                   main_status>>

\* lines 188 and 219: client.operations.get answers after d whole seconds, d
\* one of `latencies` (it holds what the sleep overran, too); the clock is read
\* again (182) only if the answer is not done.  time.time() is taken not to
\* run backwards.
Fetch(latencies) ==
    /\ \/ /\ \E op \in DoneOperations : operation' = op
          /\ elapsed_clock' = 0
          /\ UNCHANGED not_done_polls
       \/ /\ operation' = NotDoneOperation
          /\ \E d \in latencies : elapsed_clock' = elapsed_clock + d
          /\ not_done_polls' = not_done_polls + 1
    /\ polls' = polls + 1
    /\ pc' = "loop"
    /\ UNCHANGED <<entry, mode, uploaded_file, prompt, duration, aspect_ratio, quality,
                   button_disabled, text_only, image_data, config, image_obj, payload,
                   submits, downloads, image_writes, files, other_pc, generated_video,
                   result, error_shown, guidance_chosen, error_message, failed_step,
                   raised_kind, handler_failed, left_kind, main_status>>

\* the fetch with answers of up to MaxLatency seconds
LoopPoll ==
    /\ pc = "poll"
    /\ Fetch(0..MaxLatency)

\* the fetch with answers of any length that matters: after LongestLatency
\* seconds the time is up whenever the round began
LongestLatency == timeout - sleep_seconds + 1

LoopPollAny ==
    /\ pc = "poll"
    /\ Fetch(0..LongestLatency)

\* lines 190 and 221: operation.response.generated_videos[0]
Extract ==
    /\ pc = "loop"
    /\ operation.done
    /\ LET r == operation.response IN
       IF r = None THEN
            /\ Handle("extract", "Exception", AttributeErrorMessage)
            /\ UNCHANGED generated_video
       ELSE IF r.generated_videos = None THEN
            /\ Handle("extract", "Exception", TypeErrorMessage)
            /\ UNCHANGED generated_video
       ELSE IF r.generated_videos.list = <<>> THEN
            /\ Handle("extract", "Exception", IndexErrorMessage)
            /\ UNCHANGED generated_video
       ELSE /\ generated_video' = first_generated(r.generated_videos.list)
            /\ pc' = "download"
            /\ UNCHANGED <<elapsed_clock, result, error_shown, guidance_chosen,
                           error_message, failed_step, raised_kind, handler_failed,
                           left_kind,
                           main_status>>
    /\ UNCHANGED <<entry, mode, uploaded_file, prompt, duration, aspect_ratio, quality,
                   button_disabled, text_only, image_data, config, image_obj, payload,
                   operation, submits, polls, not_done_polls, downloads, image_writes,
                   files, other_pc>>

\* lines 191 and 222: client.files.download
Download ==
    /\ pc = "download"
    /\ downloads' = downloads + 1
    /\ pc' = "save"
    /\ UNCHANGED <<entry, mode, uploaded_file, prompt, duration, aspect_ratio, quality,
                   button_disabled, text_only, image_data, config, image_obj, payload,
                   operation, elapsed_clock, submits, polls, not_done_polls, image_writes,
                   files, other_pc, generated_video, result, error_shown, guidance_chosen,
                   error_message, failed_step, raised_kind, handler_failed, left_kind,
                   main_status>>

\* lines 192 and 223: video.save opens the file of the fixed name for writing
SaveOpen ==
    /\ pc = "save"
    /\ files' = opened(files, video_path)
    /\ pc' = "save_write"
    /\ UNCHANGED <<entry, mode, uploaded_file, prompt, duration, aspect_ratio, quality,
                   button_disabled, text_only, image_data, config, image_obj, payload,
                   operation, elapsed_clock, submits, polls, not_done_polls, downloads,
                   image_writes, other_pc, generated_video, result, error_shown,
                   guidance_chosen, error_message, failed_step, raised_kind,
                   handler_failed, left_kind, main_status>>

\* lines 192 and 223: video.save writes the video and closes the file
SaveWrite ==
    /\ pc = "save_write"
    /\ files' = written(files, video_path, generated_video)
    /\ pc' = "read"
    /\ UNCHANGED <<entry, mode, uploaded_file, prompt, duration, aspect_ratio, quality,
                   button_disabled, text_only, image_data, config, image_obj, payload,
                   operation, elapsed_clock, submits, polls, not_done_polls, downloads,
                   image_writes, other_pc, generated_video, result, error_shown,
                   guidance_chosen, error_message, failed_step, raised_kind,
                   handler_failed, left_kind, main_status>>

\* lines 193-195 and 224-226: the file of that name is read and returned
Read ==
    /\ pc = "read"
    /\ Return(files[video_path])
    /\ UNCHANGED <<entry, mode, uploaded_file, prompt, duration, aspect_ratio, quality,
                   button_disabled, text_only, image_data, config, image_obj, payload,
                   operation, submits, polls, not_done_polls, downloads, image_writes,
                   files, other_pc, generated_video, error_shown, guidance_chosen,
                   error_message, failed_step, raised_kind, handler_failed, left_kind>>

-----------------------------------------------------------------------------
(* Another call of generate_video_with_veo3 in the same working directory: *)
(* an earlier press of the button, or a call the server runs for another   *)
(* session at the same time.  It runs the same lines on the same three     *)
(* file names; its steps on the files are followed, at any moment.  A call *)
(* that starts at its save is a text-only one.                             *)

\* its line 201
OtherStageOpen ==
    /\ other_pc = "idle"
    /\ files' = opened(files, TEMP_IMAGE)
    /\ other_pc' = "stage_write"
    /\ UNCHANGED <<pc, entry, mode, uploaded_file, prompt, duration, aspect_ratio, quality,
                   button_disabled, text_only, image_data, config, image_obj, payload,
                   operation, elapsed_clock, submits, polls, not_done_polls, downloads,
                   image_writes, generated_video, result, error_shown, guidance_chosen,
                   error_message, failed_step, raised_kind, handler_failed, left_kind,
                   main_status>>

\* its line 202
OtherStageWrite ==
    /\ other_pc = "stage_write"
    /\ files' = written(files, TEMP_IMAGE, OtherImage)
    /\ other_pc' = "remote"
    /\ UNCHANGED <<pc, entry, mode, uploaded_file, prompt, duration, aspect_ratio, quality,
                   button_disabled, text_only, image_data, config, image_obj, payload,
                   operation, elapsed_clock, submits, polls, not_done_polls, downloads,
                   image_writes, generated_video, result, error_shown, guidance_chosen,
                   error_message, failed_step, raised_kind, handler_failed, left_kind,
                   main_status>>

\* its line 192 (text-only) or 223 (with its image): the file is opened
OtherSaveOpen ==
    /\ other_pc \in {"idle", "remote"}
    /\ files' = opened(files, IF other_pc = "idle" THEN TEXT_VIDEO ELSE IMAGE_VIDEO)
    /\ other_pc' = IF other_pc = "idle" THEN "save_write_text" ELSE "save_write_image"
    /\ UNCHANGED <<pc, entry, mode, uploaded_file, prompt, duration, aspect_ratio, quality,
                   button_disabled, text_only, image_data, config, image_obj, payload,
                   operation, elapsed_clock, submits, polls, not_done_polls, downloads,
                   image_writes, generated_video, result, error_shown, guidance_chosen,
                   error_message, failed_step, raised_kind, handler_failed, left_kind,
                   main_status>>

\* its line 192 or 223: the video is written
OtherSaveWrite ==
    /\ other_pc \in {"save_write_text", "save_write_image"}
    /\ files' = written(files, IF other_pc = "save_write_text" THEN TEXT_VIDEO
                                ELSE IMAGE_VIDEO, OtherVideo)
    /\ other_pc' = "done"
    /\ UNCHANGED <<pc, entry, mode, uploaded_file, prompt, duration, aspect_ratio, quality,
                   button_disabled, text_only, image_data, config, image_obj, payload,
                   operation, elapsed_clock, submits, polls, not_done_polls, downloads,
                   image_writes, generated_video, result, error_shown, guidance_chosen,
                   error_message, failed_step, raised_kind, handler_failed, left_kind,
                   main_status>>

-----------------------------------------------------------------------------
(* Exceptions *)

\* the calls that can raise at this position
raising_at ==
    IF pc = "entered" THEN {"display"}
    ELSE IF pc = "stage" THEN {"display", "stage"}
    ELSE IF pc \in {"stage_write", "staged"} THEN {"stage"}
    ELSE IF pc = "submit"
        THEN IF text_branch(text_only, image_data) THEN {"display", "submit"}
             ELSE {"submit"}
    ELSE IF pc = "loop" /\ ~operation.done
        THEN IF timed_out(elapsed_clock) THEN {"expire"} ELSE {"wait"}
    ELSE IF pc = "poll" THEN {"poll"}
    ELSE IF pc = "download" THEN {"download"}
    ELSE IF pc \in {"save", "save_write"} THEN {"save"}
    ELSE IF pc = "read" THEN {"read"}
    ELSE {}

\* the texts the exception of a step can carry
messages_of(step, kind) ==
    IF kind = "BaseException" THEN {KeyboardInterruptMessage}
    ELSE IF step \in Remote THEN ErrMessages
    ELSE {OSErrorMessage}

\* a call raises.  A remote call that raises was made: generate_videos got its
\* keyword arguments.  What the file calls before it did stays done: a failing
\* write (202) leaves the file opened, a failing Image.from_file (203) leaves
\* it written.
Raise ==
    /\ \E step \in raising_at, kind \in ExceptionKinds :
          \E msg \in messages_of(step, kind) :
             /\ Handle(step, kind, msg)
             /\ submits' = IF step = "submit" THEN submits + 1 ELSE submits
             /\ payload' = IF step = "submit"
                           THEN submit_kwargs(prompt, IF text_branch(text_only, image_data)
                                                      THEN None ELSE image_obj)
                           ELSE payload
             /\ polls' = IF step = "poll" THEN polls + 1 ELSE polls
             /\ downloads' = IF step = "download" THEN downloads + 1 ELSE downloads
    /\ UNCHANGED <<entry, mode, uploaded_file, prompt, duration, aspect_ratio, quality,
                   button_disabled, text_only, image_data, config, image_obj, operation,
                   not_done_polls, image_writes, files, other_pc, generated_video>>

Driver ==
    \/ Begin
    \/ StageOpen
    \/ StageWrite
    \/ StageRead
    \/ Submit
    \/ LoopTimeout
    \/ LoopWait
    \/ Extract
    \/ Download
    \/ SaveOpen
    \/ SaveWrite
    \/ Read
    \/ Raise

Other ==
    \/ OtherStageOpen
    \/ OtherStageWrite
    \/ OtherSaveOpen
    \/ OtherSaveWrite

\* the page, served to one session alone in its working directory: the form
\* is filled in and the button pressed
Next ==
    \/ Render
    \/ Click
    \/ Driver
    \/ LoopPoll

Spec == Init /\ [][Next]_vars

\* the function called by itself, while another call of it runs in the same
\* working directory
NextCall ==
    \/ DirectCall
    \/ Driver
    \/ LoopPoll
    \/ Other

SpecCall == Init /\ [][NextCall]_vars

-----------------------------------------------------------------------------
(* The polling loop alone, with answers of every length: a call by itself  *)
(* whose submit call has just answered with an operation that is not done, *)
(* in the text-only branch or in the image branch.                         *)

InitLoop ==
    /\ pc = "loop"
    /\ entry = "direct"
    /\ mode = "Text Prompt Only"
    /\ uploaded_file = None
    /\ prompt = <<"a">>
    /\ duration = 4
    /\ aspect_ratio = "16:9"
    /\ quality = "Standard"
    /\ button_disabled = TRUE
    /\ text_only \in BOOLEAN
    /\ image_data = IF text_only THEN None ELSE ImageBlob
    /\ config = [aspect_ratio |-> "16:9", number_of_videos |-> 1,
                 duration_seconds |-> 4, person_generation |-> "ALLOW_ALL"]
    /\ image_obj = image_data
    /\ payload = submit_kwargs(<<"a">>, image_obj)
    /\ operation = NotDoneOperation
    /\ elapsed_clock = 0
    /\ submits = 1
    /\ polls = 0
    /\ not_done_polls = 0
    /\ downloads = 0
    /\ image_writes = IF text_only THEN 0 ELSE 1
    /\ files = IF text_only THEN NoFiles ELSE written(NoFiles, TEMP_IMAGE, ImageBlob)
    /\ other_pc = "idle"
    /\ generated_video = None
    /\ result = None
    /\ error_shown = "none"
    /\ guidance_chosen = "none"
    /\ error_message = <<>>
    /\ failed_step = "none"
    /\ raised_kind = "none"
    /\ handler_failed = "none"
    /\ left_kind = "none"
    /\ main_status = "none"

NextLoop ==
    \/ LoopTimeout
    \/ LoopWait
    \/ LoopPollAny
    \/ Extract
    \/ Download
    \/ SaveOpen
    \/ SaveWrite
    \/ Read
    \/ Raise

SpecLoop == InitLoop /\ [][NextLoop]_vars

-----------------------------------------------------------------------------
(* The except-handler alone, over many exception texts: the submit call has *)
(* raised an Exception whose text is any of Messages.                       *)

InitClassify ==
    /\ pc = "raised"
    /\ entry = "direct"
    /\ mode = "Text Prompt Only"
    /\ uploaded_file = None
    /\ prompt = <<"a">>
    /\ duration = 4
    /\ aspect_ratio = "16:9"
    /\ quality = "Standard"
    /\ button_disabled = TRUE
    /\ text_only = TRUE
    /\ image_data = None
    /\ config = [aspect_ratio |-> "16:9", number_of_videos |-> 1,
                 duration_seconds |-> 4, person_generation |-> "ALLOW_ALL"]
    /\ image_obj = None
    /\ payload = submit_kwargs(<<"a">>, None)
    /\ operation = None
    /\ elapsed_clock = 0
    /\ submits = 1
    /\ polls = 0
    /\ not_done_polls = 0
    /\ downloads = 0
    /\ image_writes = 0
    /\ files = NoFiles
    /\ other_pc = "idle"
    /\ generated_video = None
    /\ result = None
    /\ error_shown = "none"
    /\ guidance_chosen = "none"
    /\ error_message \in Messages
    /\ failed_step = "submit"
    /\ raised_kind = "Exception"
    /\ handler_failed = "none"
    /\ left_kind = "none"
    /\ main_status = "none"

\* lines 228-248 on the raised exception
Except ==
    /\ pc = "raised"
    /\ Handle(failed_step, raised_kind, error_message)
    /\ UNCHANGED <<entry, mode, uploaded_file, prompt, duration, aspect_ratio, quality,
                   button_disabled, text_only, image_data, config, image_obj, payload,
                   operation, submits, polls, not_done_polls, downloads, image_writes,
                   files, other_pc, generated_video>>

NextClassify == Except

SpecClassify == InitClassify /\ [][NextClassify]_vars

-----------------------------------------------------------------------------
(* What a finished call amounts to, read off what it returned and displayed *)

Finished == pc \in {"returned", "done", "aborted"}

\* an exception left generate_video_with_veo3
crossed == left_kind # "none"

outcome ==
    IF ~Finished THEN "RUNNING"
    ELSE IF crossed THEN "EXCEPTION"
    ELSE IF result # None THEN "DONE_SUCCESS"
    ELSE IF error_shown = "timed_out" THEN "TIMED_OUT"
    ELSE guidance_chosen

-----------------------------------------------------------------------------
(* Properties *)

\* word occurs in msg, letter case ignored
has_ci(word, msg) ==
    \E i \in 1..Len(msg) :
        /\ i + Len(word) - 1 <= Len(msg)
        /\ \A j \in 1..Len(word) : lower_char(msg[i + j - 1]) = word[j]

\* all characters of s are whitespace
blank(s) == \A i \in 1..Len(s) : s[i] \in Whitespace

\* the operation is done and holds no generated item
empty_result(op) ==
    /\ op # None
    /\ op.done
    /\ \/ op.response = None
       \/ op.response.generated_videos = None
       \/ op.response.generated_videos.list = <<>>

(* C1 as stated: while the operation is not done, the driver stops with the *)
(* timeout failure (None returned, the timed-out error shown, no exception, *)
(* no poll made) exactly when it sees elapsed time above 300 s, and a       *)
(* finished call polls no more.                                             *)
C1_TimeoutAlwaysReported ==
    [][ /\ (pc = "loop" /\ ~operation.done /\ elapsed_clock > timeout)
             => (Finished' /\ result' = None /\ error_shown' = "timed_out"
                 /\ polls' = polls /\ ~crossed')
        /\ (error_shown' = "timed_out" /\ error_shown # "timed_out")
             => (pc = "loop" /\ ~operation.done /\ elapsed_clock > timeout)
        /\ Finished => (Finished' /\ polls' = polls) ]_vars

(* C1: while the operation is not done, the driver stops exactly when it    *)
(* sees elapsed time above 300 s: the call ends there with no video and no  *)
(* poll made, and a finished call polls no more.  It ends with the          *)
(* timed-out error shown and None returned, unless the st.error that shows  *)
(* it raises: then the timed-out error is not shown, and the except-handler *)
(* shows the generic error or the exception leaves the function.            *)
C1_TimeoutStopsPolling ==
    [][ /\ (pc = "loop" /\ ~operation.done /\ elapsed_clock > timeout)
             => /\ Finished'
                /\ result' = None
                /\ polls' = polls
                /\ \/ /\ error_shown' = "timed_out"
                      /\ failed_step' = "none"
                      /\ ~crossed'
                   \/ /\ failed_step' = "expire"
                      /\ error_shown' # "timed_out"
                      /\ crossed' \/ error_shown' = "generation_error"
        /\ (error_shown' = "timed_out" /\ error_shown # "timed_out")
             => (pc = "loop" /\ ~operation.done /\ elapsed_clock > timeout)
        /\ (pc = "loop" /\ ~operation.done /\ elapsed_clock <= timeout)
             => failed_step' # "expire"
        /\ Finished => (Finished' /\ polls' = polls) ]_vars

C1_Witness ==
    /\ pc = "returned"
    /\ error_shown = "timed_out"
    /\ result = None
    /\ polls = 31
    /\ not_done_polls = 31

(* C2: a call that returns a video made, when the submit answered not-done, *)
(* exactly one poll more than the polls that answered not-done, so none     *)
(* after done was seen; and the bytes returned are those of the first       *)
(* generated item of the done operation.                                    *)
C2_SuccessAfterPolls ==
    (Finished /\ result # None) =>
        /\ operation # None
        /\ operation.done
        /\ ~empty_result(operation)
        /\ result = operation.response.generated_videos.list[1]
        /\ Len(result.bytes) = Len(operation.response.generated_videos.list[1].bytes)
        /\ polls = 0 \/ polls = not_done_polls + 1
        /\ downloads = 1
        /\ submits = 1

\* g is the category of the first test that matches m, letter case ignored,
\* in the order quota/exceeded, authentication/unauthorized, invalid_argument,
\* model and not found, timeout, unavailable/503, else general
first_match(m, g) ==
    LET quota == has_ci(<<"q", "u", "o", "t", "a">>, m) \/ has_ci(<<"e", "x", "c", "e", "e", "d", "e", "d">>, m)
        auth == has_ci(<<"a", "u", "t", "h", "e", "n", "t", "i", "c", "a", "t", "i", "o", "n">>, m) \/ has_ci(<<"u", "n", "a", "u", "t", "h", "o", "r", "i", "z", "e", "d">>, m)
        invalid == has_ci(<<"i", "n", "v", "a", "l", "i", "d", "_", "a", "r", "g", "u", "m", "e", "n", "t">>, m)
        model == has_ci(<<"m", "o", "d", "e", "l">>, m) /\ has_ci(<<"n", "o", "t", " ", "f", "o", "u", "n", "d">>, m)
        timeo == has_ci(<<"t", "i", "m", "e", "o", "u", "t">>, m)
        unavail == has_ci(<<"u", "n", "a", "v", "a", "i", "l", "a", "b", "l", "e">>, m) \/ has_ci(<<"5", "0", "3">>, m)
    IN  /\ g \in {"Quota Issue", "Authentication Issue", "Invalid Input",
                  "Model Access", "Timeout", "Service Unavailable", "General Error"}
        /\ (g = "Quota Issue") <=> quota
        /\ (g = "Authentication Issue") <=> (~quota /\ auth)
        /\ (g = "Invalid Input") <=> (~quota /\ ~auth /\ invalid)
        /\ (g = "Model Access") <=> (~quota /\ ~auth /\ ~invalid /\ model)
        /\ (g = "Timeout") <=> (~quota /\ ~auth /\ ~invalid /\ ~model /\ timeo)
        /\ (g = "Service Unavailable")
               <=> (~quota /\ ~auth /\ ~invalid /\ ~model /\ ~timeo /\ unavail)
        /\ (g = "General Error")
               <=> (~quota /\ ~auth /\ ~invalid /\ ~model /\ ~timeo /\ ~unavail)
    /\ handler_failed = "none"

(* C4: a done operation whose result or generated-items list is absent or   *)
(* empty ends in the EMPTY_RESULT failure, returns no video and downloads   *)
(* nothing.                                                                 *)
C4_EmptyResultOutcome ==
    (Finished /\ empty_result(operation)) =>
        /\ outcome = "EMPTY_RESULT"
        /\ result = None
        /\ downloads = 0

(* C5: a submit call that fails with "FAILED_PRECONDITION, billing" ends in *)
(* SUBMIT_BILLING_REQUIRED, with no poll made.                              *)
C5_BillingOutcome ==
    (Finished /\ failed_step = "submit"
              /\ contains(<<"F", "A", "I", "L", "E", "D", "_", "P", "R", "E", "C", "O", "N", "D", "I", "T", "I", "O", "N", ",", " ", "b", "i", "l", "l", "i", "n", "g">>, error_message)) =>
        /\ outcome = "SUBMIT_BILLING_REQUIRED"
        /\ polls = 0

(* C6: whichever of the submit, poll, download or file-read steps raises an *)
(* Exception, the call ends by returning None with the error shown, and no  *)
(* exception reaches main.                                                  *)
C6_NoExceptionCrosses ==
    (/\ Finished
     /\ failed_step \in {"submit", "poll", "download", "read"}
     /\ raised_kind = "Exception"
     /\ left_kind # "BaseException") =>
        /\ ~crossed
        /\ result = None
        /\ error_shown = "generation_error"

(* C7: with text_only true the submit call carries model and prompt and no  *)
(* image, whatever image_data is, and the call never opens the image file   *)
(* for writing.                                                             *)
C7_TextOnlySendsNoImage ==
    text_only =>
        /\ image_writes = 0
        /\ image_obj = None
        /\ payload # NoPayload =>
               /\ payload.image = None
               /\ payload.model = MODEL
               /\ payload.prompt = prompt

C7_Witness ==
    /\ text_only
    /\ image_data = ImageBlob
    /\ payload # NoPayload
    /\ pc = "loop"

(* C8: through main, a prompt that is empty after trimming never reaches    *)
(* the driver: the button is disabled, or not made at all when the form    *)
(* fails to render, and no submit call is made.                             *)
C8_BlankPromptNeverSubmitted ==
    (entry = "main" /\ pc # "start" /\ blank(prompt)) =>
        /\ pc \in {"form", "aborted"}
        /\ button_disabled
        /\ submits = 0
        /\ payload = NoPayload

C8_Witness ==
    /\ pc = "form"
    /\ mode = "Text + Image"
    /\ uploaded_file = ImageBlob
    /\ prompt = <<NBSP, VT>>
    /\ button_disabled

(* C9: every submit call carries the generation configuration built from    *)
(* the request (aspect ratio, duration, person-generation policy, one       *)
(* video), with the model identifier and the prompt.                        *)
C9_SubmitCarriesConfig ==
    payload # NoPayload =>
        /\ payload.model = MODEL
        /\ payload.prompt = prompt
        /\ payload.config = [aspect_ratio |-> aspect_ratio, number_of_videos |-> 1,
                             duration_seconds |-> duration,
                             person_generation |-> "ALLOW_ALL"]

====
